---- MODULE Spec2Model ----
(***************************************************************************)
(* The CUDA rasterization pipeline of src/src/rasterize.cu (the pipeline   *)
(* that starts at line 470 of the file: kernClearFragmentBuffer,            *)
(* kernDrawAxis, kernVertexShader, kernPrimitiveAssembly, thrust::remove_if,*)
(* kernRasterizeTraingles, kernFragmentShader, kernRasterizePoints,         *)
(* kernEdgeAssembly, kernRasterizeLines, render, sendImageToPBO and the     *)
(* host function rasterize that launches them).                             *)
(*                                                                          *)
(* Numbers.  A float of the code is an exact rational <<n, d>> (d > 0,      *)
(* lowest terms); rounding is not modelled.  An int of the code is an       *)
(* integer; a float-to-int conversion truncates toward zero.                *)
(*                                                                          *)
(* Scheduling.  Kernels launched on the default stream run one after the    *)
(* other; inside a kernel the work items run in any order.  A work item of  *)
(* a 1-D kernel is one thread.  A work item of a 2-D (per pixel) kernel is  *)
(* one row of threads: they are lanes of one warp of the 8x8 block and      *)
(* touch only their own fragment.  A thread of the triangle raster is       *)
(* split at every access to the shared fragment buffer.                     *)
(***************************************************************************)
EXTENDS Integers, Sequences, FiniteSets, TLC

\* ------------------------------------------------------------- numbers

Abs(x) == IF x < 0 THEN -x ELSE x

RECURSIVE GCD(_, _)
GCD(a, b) == IF b = 0 THEN a ELSE GCD(b, a % b)

\* the rational n/d in lowest terms, d # 0
Rat(n, d) ==
  LET g == GCD(Abs(n), Abs(d))
      s == IF d < 0 THEN -1 ELSE 1
  IN  <<(s * n) \div g, (s * d) \div g>>

R(n) == <<n, 1>>

RAdd(a, b) == Rat(a[1] * b[2] + b[1] * a[2], a[2] * b[2])
RSub(a, b) == Rat(a[1] * b[2] - b[1] * a[2], a[2] * b[2])
RMul(a, b) == Rat(a[1] * b[1], a[2] * b[2])
RDiv(a, b) == Rat(a[1] * b[2], a[2] * b[1])
RNeg(a) == <<-a[1], a[2]>>
RLt(a, b) == a[1] * b[2] < b[1] * a[2]
RLe(a, b) == a[1] * b[2] <= b[1] * a[2]
RMin(a, b) == IF RLt(b, a) THEN b ELSE a
RMax(a, b) == IF RLt(a, b) THEN b ELSE a
RSign(a) == IF a[1] > 0 THEN 1 ELSE IF a[1] < 0 THEN -1 ELSE 0

\* float -> int: truncation toward zero
RTrunc(a) == IF a[1] >= 0 THEN a[1] \div a[2] ELSE -((-a[1]) \div a[2])

\* glm::clamp(x, lo, hi)
RClamp(x, lo, hi) == RMin(RMax(x, lo), hi)

IMin(a, b) == IF b < a THEN b ELSE a

\* glm::vec3 arithmetic
ZERO == <<R(0), R(0), R(0)>>
WHITE == <<R(1), R(1), R(1)>>
VAdd(u, v) == <<RAdd(u[1], v[1]), RAdd(u[2], v[2]), RAdd(u[3], v[3])>>
VScale(r, v) == <<RMul(r, v[1]), RMul(r, v[2]), RMul(r, v[3])>>
VDot(u, v) == RAdd(RAdd(RMul(u[1], v[1]), RMul(u[2], v[2])), RMul(u[3], v[3]))
IVec(x, y, z) == <<R(x), R(y), R(z)>>

\* a 0-based array from a sequence
Arr(s) == [i \in 0 .. Len(s) - 1 |-> s[i + 1]]

\* ------------------------------------------------------------- constants

width == 4
height == 4
INT_MAX == 2147483647
DEPTH_SCALE == 10000
NUM_SAMPLES == 4

\* bound on the number of rasterize calls of a behaviour
MaxFrames == 2

Pixels == 0 .. width * height - 1
Rows == 0 .. height - 1
Samples == 0 .. NUM_SAMPLES - 1

\* ------------------------------------------------------------- rasterizeTools.h

\* glm::mat4 * glm::vec4; m is a tuple of 4 rows of 4 integers
MulMV4(m, v) ==
  [r \in 1 .. 4 |->
     RAdd(RAdd(RMul(R(m[r][1]), v[1]), RMul(R(m[r][2]), v[2])),
          RAdd(RMul(R(m[r][3]), v[3]), RMul(R(m[r][4]), v[4])))]

\* multiplyMV: the matrix applied to a homogeneous vector, as a vec3
multiplyMV(m, v) == LET o == MulMV4(m, v) IN <<o[1], o[2], o[3]>>

\* the value of a division by zero, and of anything computed from it
NaN == <<>>

calculateSignedArea(a, b, c) ==
  RMul(Rat(1, 2),
       RSub(RMul(RSub(c[1], a[1]), RSub(b[2], a[2])),
            RMul(RSub(b[1], a[1]), RSub(c[2], a[2]))))

calculateBarycentricCoordinateValue(a, b, c, tri) ==
  RDiv(calculateSignedArea(a, b, c), calculateSignedArea(tri[1], tri[2], tri[3]))

\* barycentric coordinates <<alpha, beta, gamma>> of the point p in tri
calculateBarycentricCoordinate(tri, p) ==
  IF calculateSignedArea(tri[1], tri[2], tri[3]) = R(0) THEN NaN
  ELSE LET beta == calculateBarycentricCoordinateValue(tri[1], p, tri[3], tri)
           gamma == calculateBarycentricCoordinateValue(tri[1], tri[2], p, tri)
           alpha == RSub(RSub(R(1), beta), gamma)
       IN  <<alpha, beta, gamma>>

\* every coordinate in [0, 1]
isBarycentricCoordInBounds(b) ==
  /\ b # NaN
  /\ \A i \in 1 .. 3 : RLe(R(0), b[i]) /\ RLe(b[i], R(1))

\* the depth interpolated at barycentric b from the z of three positions
getZAtCoordinate(b, tri) ==
  RAdd(RAdd(RMul(b[1], tri[1][3]), RMul(b[2], tri[2][3])), RMul(b[3], tri[3][3]))

\* device-space bounding box of a triangle
getAABBForTriangle(tri) ==
  [min |-> <<RMin(RMin(tri[1][1], tri[2][1]), tri[3][1]),
             RMin(RMin(tri[1][2], tri[2][2]), tri[3][2])>>,
   max |-> <<RMax(RMax(tri[1][1], tri[2][1]), tri[3][1]),
             RMax(RMax(tri[1][2], tri[2][2]), tri[3][2])>>]

\* b.x * u + b.y * v + b.z * w
Interpolate(b, u, v, w) == VAdd(VAdd(VScale(b[1], u), VScale(b[2], v)), VScale(b[3], w))

\* Lambert term of one light: dot(normalize(light.pos - pos), nor) * col.
\* Vectors are taken along the z axis, where normalize is the sign.
Lambert(nor, pos, col, light) ==
  VScale(RMul(R(RSign(RSub(light.pos[3], pos[3]))), nor[3]), col)

\* two-light Lambertian shading of one sample
calculateFragColor(nor, pos, col, light1, light2) ==
  VAdd(Lambert(nor, pos, col, light1), Lambert(nor, pos, col, light2))

\* ------------------------------------------------------------- scenes

RED == IVec(1, 0, 0)
GREEN == IVec(0, 1, 0)
BLUE == IVec(0, 0, 1)

Identity == <<<<1, 0, 0, 0>>, <<0, 1, 0, 0>>, <<0, 0, 1, 0>>, <<0, 0, 0, 1>>>>

\* a camera whose product matrix is the identity
CamIdentity ==
  [model |-> Identity, cameraMatrix |-> Identity,
   inverseTransposeModel |-> Identity, dir |-> IVec(0, 0, -1)]

\* a camera whose product matrix leaves w = 2, so that the divide acts
CamDivide ==
  [model |-> Identity,
   cameraMatrix |-> <<<<2, 0, 0, 0>>, <<0, 2, 0, 0>>, <<0, 0, 1, 0>>, <<0, 0, 0, 2>>>>,
   inverseTransposeModel |-> Identity, dir |-> IVec(0, 0, -1)]

\* an input vertex that both cameras send to the device position (x, y)
VIn(x, y, z, nz, col) ==
  [pos |-> <<Rat(x, width), Rat(y, height), R(z)>>, nor |-> IVec(0, 0, nz), col |-> col]

Cfg(mode, cull, aa) == [renderMode |-> mode, backFaceCulling |-> cull, antiAliasing |-> aa]

Lights == [light1 |-> [pos |-> IVec(0, 0, 5), col |-> WHITE],
           light2 |-> [pos |-> IVec(0, 0, 6), col |-> WHITE]]

\* two triangles that overlap at the device point (-1, -1), where the first
\* one is nearer
MeshOverlap ==
  [bufVertex |-> Arr(<<VIn(-1, -1, 1, 1, RED), VIn(0, -1, 1, 1, RED), VIn(-1, 0, 2, 1, BLUE),
                       VIn(-1, -1, 3, 2, GREEN), VIn(-2, -1, 3, 2, GREEN), VIn(-1, -2, 3, 2, GREEN)>>),
   bufIdx |-> Arr(<<0, 1, 2, 3, 4, 5>>),
   cam |-> CamIdentity,
   configs |-> {Cfg("TRIANGLES", FALSE, FALSE)}]

\* one triangle whose normal and colour vary over it
MeshSingle ==
  [bufVertex |-> Arr(<<VIn(-2, -2, 1, 1, RED), VIn(1, -2, 2, 2, GREEN), VIn(-2, 1, 3, 3, BLUE)>>),
   bufIdx |-> Arr(<<0, 1, 2>>),
   cam |-> CamIdentity,
   configs |-> {Cfg("TRIANGLES", FALSE, FALSE), Cfg("TRIANGLES", FALSE, TRUE)}]

\* one triangle with one normal and one colour
MeshFlat ==
  [bufVertex |-> Arr(<<VIn(-2, -2, 1, 1, RED), VIn(1, -2, 2, 1, RED), VIn(-2, 1, 3, 1, RED)>>),
   bufIdx |-> Arr(<<0, 1, 2>>),
   cam |-> CamIdentity,
   configs |-> {Cfg("TRIANGLES", FALSE, FALSE), Cfg("TRIANGLES", FALSE, TRUE)}]

\* the index buffer swaps the two triangles: triangle 0 is made of the
\* back-facing vertices 3, 4, 5 and triangle 1 of the front-facing 0, 1, 2
MeshPermuted ==
  [bufVertex |-> Arr(<<VIn(-2, -2, 1, 1, RED), VIn(-1, -2, 1, 1, RED), VIn(-2, -1, 1, 1, RED),
                       VIn(-1, -1, 2, -1, GREEN), VIn(0, -1, 2, -1, GREEN), VIn(-1, 0, 2, -1, GREEN)>>),
   bufIdx |-> Arr(<<3, 4, 5, 0, 1, 2>>),
   cam |-> CamIdentity,
   configs |-> {Cfg("TRIANGLES", TRUE, FALSE)}]

\* front-facing, back-facing, front-facing; the back-facing triangle lies
\* over the third one and nearer
MeshCull ==
  [bufVertex |-> Arr(<<VIn(-2, -2, 1, 1, RED), VIn(-1, -2, 1, 1, RED), VIn(-2, -1, 1, 1, RED),
                       VIn(-1, -1, 2, -1, GREEN), VIn(0, -1, 2, -1, GREEN), VIn(-1, 0, 2, -1, GREEN),
                       VIn(-1, -1, 3, 1, BLUE), VIn(0, -1, 3, 1, BLUE), VIn(-1, 0, 3, 1, BLUE)>>),
   bufIdx |-> Arr(<<0, 1, 2, 3, 4, 5, 6, 7, 8>>),
   cam |-> CamIdentity,
   configs |-> {Cfg("TRIANGLES", TRUE, FALSE)}]

\* a triangle with a horizontal side, drawn as points or as lines
MeshWire ==
  [bufVertex |-> Arr(<<VIn(-1, 0, 1, 1, RED), VIn(1, 0, 1, 1, RED), VIn(1, -1, 1, 1, RED)>>),
   bufIdx |-> Arr(<<0, 1, 2>>),
   cam |-> CamDivide,
   configs |-> {Cfg("POINTS", FALSE, FALSE), Cfg("LINES", FALSE, FALSE)}]

\* one vertex inside the viewport, one on its left edge, one on its top edge
MeshPoints ==
  [bufVertex |-> Arr(<<VIn(-1, -1, 1, 1, RED), VIn(-2, 0, 1, 1, RED), VIn(1, 2, 1, 1, RED)>>),
   bufIdx |-> Arr(<<0, 1, 2>>),
   cam |-> CamIdentity,
   configs |-> {Cfg("POINTS", FALSE, FALSE), Cfg("LINES", FALSE, FALSE)}]

\* a triangle that reaches the right and the top edge of the viewport
MeshEdge ==
  [bufVertex |-> Arr(<<VIn(0, 0, 1, 1, RED), VIn(2, 0, 1, 1, RED), VIn(0, 2, 1, 1, RED)>>),
   bufIdx |-> Arr(<<0, 1, 2>>),
   cam |-> CamIdentity,
   configs |-> {Cfg("TRIANGLES", FALSE, FALSE)}]

\* a triangle with a side of slope -2, a horizontal side and a side of slope 2
MeshSteep ==
  [bufVertex |-> Arr(<<VIn(0, 1, 1, 1, RED), VIn(1, -1, 1, 1, RED), VIn(-1, -1, 1, 1, RED)>>),
   bufIdx |-> Arr(<<0, 1, 2>>),
   cam |-> CamIdentity,
   configs |-> {Cfg("LINES", FALSE, FALSE)}]

\* vertices whose coordinates after the divide are (1, 0), (-3/4, 1/4) and
\* (1/4, 1/4)
MeshWide ==
  [bufVertex |-> Arr(<<VIn(4, 0, 1, 1, RED), VIn(-3, 1, 1, 1, RED), VIn(1, 1, 1, 1, RED)>>),
   bufIdx |-> Arr(<<0, 1, 2>>),
   cam |-> CamDivide,
   configs |-> {Cfg("POINTS", FALSE, FALSE), Cfg("LINES", FALSE, FALSE)}]

\* a square of two triangles that share two of its four vertices
MeshQuad ==
  [bufVertex |-> Arr(<<VIn(-1, -1, 1, 1, RED), VIn(0, -1, 1, 1, RED), VIn(0, 0, 1, 1, RED),
                       VIn(-1, 0, 1, 1, RED)>>),
   bufIdx |-> Arr(<<0, 1, 2, 0, 2, 3>>),
   cam |-> CamIdentity,
   configs |-> {Cfg("TRIANGLES", FALSE, FALSE)}]

\* one triangle over the vertices 0, 1 and 3 of four; vertex 2 belongs to no
\* triangle
MeshSkip ==
  [bufVertex |-> Arr(<<VIn(-1, -1, 1, 1, RED), VIn(0, -1, 1, 1, RED), VIn(0, 0, 1, 1, RED),
                       VIn(-1, 0, 1, 1, RED)>>),
   bufIdx |-> Arr(<<0, 1, 3>>),
   cam |-> CamIdentity,
   configs |-> {Cfg("LINES", FALSE, FALSE)}]

\* two triangles, each shrunk to a point, one behind the other, whose index
\* triples both begin with vertex 0
MeshShared ==
  [bufVertex |-> Arr(<<VIn(0, 0, 1, 1, RED), VIn(0, 0, 1, 1, RED), VIn(0, 0, 1, 1, RED),
                       VIn(0, 0, 2, 1, RED), VIn(0, 0, 2, 1, RED), VIn(0, 0, 2, 1, RED)>>),
   bufIdx |-> Arr(<<0, 1, 2, 0, 4, 5>>),
   cam |-> CamIdentity,
   configs |-> {Cfg("LINES", FALSE, FALSE)}]

Meshes == <<MeshOverlap, MeshSingle, MeshFlat, MeshPermuted, MeshCull, MeshWire, MeshPoints,
            MeshEdge, MeshSteep, MeshWide, MeshQuad, MeshSkip, MeshShared>>

\* ------------------------------------------------------------- state

VARIABLES
  mesh,             \* which scene rasterizeSetBuffers was given
  run,              \* scene->run, the needs-redraw flag
  renderMode,       \* scene->renderMode
  backFaceCulling,  \* scene->backFaceCulling
  antiAliasing,     \* scene->antiAliasing
  stage,            \* where the host is in rasterize(): the running kernel
  done,             \* work items of the running kernel that have finished
  thr,              \* position of each thread of a raster or edge kernel
  redraw,           \* whether this call of rasterize() took the redraw branch
  numTriangles,     \* the local numTriangles of rasterize()
  outVertex,        \* dev_outVertex
  primitives,       \* dev_primitives
  edges,            \* dev_edges
  depthbuffer,      \* dev_depthbuffer
  framebuffer,      \* dev_framebuffer
  pbo,              \* the OpenGL pixel buffer
  imageColor,       \* scene->imageColor
  outOfRange,       \* a kernel has accessed a fragment outside dev_depthbuffer
  frames,           \* calls of rasterize() so far
  drawn             \* history: the mode and toggles of the redrawn frame imageColor shows

vars == <<mesh, run, renderMode, backFaceCulling, antiAliasing, stage, done, thr, redraw,
          numTriangles, outVertex, primitives, edges, depthbuffer, framebuffer, pbo,
          imageColor, outOfRange, frames, drawn>>

bufVertex == Meshes[mesh].bufVertex
bufIdx == Meshes[mesh].bufIdx
cam == Meshes[mesh].cam
light1 == Lights.light1
light2 == Lights.light2
vertCount == Cardinality(DOMAIN bufVertex)
bufIdxSize == Cardinality(DOMAIN bufIdx)

ZeroVertexOut == [pos |-> ZERO, transformedPos |-> ZERO, nor |-> ZERO]
ZeroVertexIn == [pos |-> ZERO, nor |-> ZERO, col |-> ZERO]
ZeroTriangle ==
  [keep |-> FALSE, vOut |-> <<ZeroVertexOut, ZeroVertexOut, ZeroVertexOut>>,
   vIn |-> <<ZeroVertexIn, ZeroVertexIn, ZeroVertexIn>>]
ZeroEdge == [v1 |-> ZERO, v2 |-> ZERO]

\* a fragment of all-zero bytes
ZeroFragment ==
  [color |-> ZERO, depth |-> [k \in Samples |-> 0], c |-> [k \in Samples |-> ZERO],
   primitiveCol |-> [k \in Samples |-> ZERO], primitiveNor |-> [k \in Samples |-> ZERO],
   primitivePos |-> [k \in Samples |-> ZERO]]

\* what cudaMalloc may leave in an edge slot; the slots are read by the line
\* raster alone
GarbageEdges(m) ==
  IF \E cfg \in m.configs : cfg.renderMode = "LINES"
  THEN {ZeroEdge, [v1 |-> IVec(-1, 1, 0), v2 |-> IVec(1, 1, 0)]}
  ELSE {ZeroEdge}

\* the state after rasterizeInit and rasterizeSetBuffers
Init ==
  /\ mesh \in 1 .. Len(Meshes)
  /\ \E cfg \in Meshes[mesh].configs :
       /\ renderMode = cfg.renderMode
       /\ backFaceCulling = cfg.backFaceCulling
       /\ antiAliasing = cfg.antiAliasing
  /\ run \in BOOLEAN
  /\ stage = "idle"
  /\ done = {}
  /\ thr = <<>>
  /\ redraw = FALSE
  /\ numTriangles = 0
  /\ outVertex = [i \in 0 .. vertCount - 1 |-> ZeroVertexOut]
  /\ primitives = [i \in 0 .. (vertCount \div 3) - 1 |-> ZeroTriangle]
  /\ \E g \in GarbageEdges(Meshes[mesh]) : edges = [i \in 0 .. vertCount - 1 |-> g]
  /\ depthbuffer = [p \in Pixels |-> ZeroFragment]
  /\ framebuffer = [p \in Pixels |-> ZERO]
  /\ pbo = [p \in Pixels |-> <<0, 0, 0, 0>>]
  /\ imageColor = [p \in Pixels |-> ZERO]
  /\ outOfRange = FALSE
  /\ frames = 0
  /\ drawn = Cfg("NONE", FALSE, FALSE)

\* ------------------------------------------------------------- per-pixel kernels

RowOf(p) == p \div width
ColOf(p) == p % width

\* a variant of the clear that leaves the resolved colour as it finds it
ClearFragment_KeepsColor(f) ==
  [color |-> f.color,
   depth |-> [k \in Samples |-> INT_MAX],
   c |-> [k \in Samples |-> ZERO],
   primitiveCol |-> [k \in Samples |-> ZERO],
   primitiveNor |-> [k \in Samples |-> ZERO],
   primitivePos |-> [k \in Samples |-> ZERO]]

\* kernClearFragmentBuffer, one thread
ClearFragment(f) ==
  [color |-> ZERO,
   depth |-> [k \in Samples |-> INT_MAX],
   c |-> [k \in Samples |-> ZERO],
   primitiveCol |-> [k \in Samples |-> ZERO],
   primitiveNor |-> [k \in Samples |-> ZERO],
   primitivePos |-> [k \in Samples |-> ZERO]]

KernClearFragmentBuffer(y) ==
  /\ stage = "clear"
  /\ y \in Rows \ done
  /\ depthbuffer' = [p \in Pixels |->
                       IF RowOf(p) = y THEN ClearFragment(depthbuffer[p]) ELSE depthbuffer[p]]
  /\ done' = done \cup {y}
  /\ UNCHANGED <<mesh, run, renderMode, backFaceCulling, antiAliasing, stage, thr, redraw,
                 numTriangles, outVertex, primitives, edges, framebuffer, pbo, imageColor,
                 outOfRange, frames, drawn>>

\* kernDrawAxis, one thread at pixel (x, y)
DrawAxis(f, x, y) ==
  IF 2 * x = width THEN [f EXCEPT !.color = GREEN]
  ELSE IF 2 * y = height THEN [f EXCEPT !.color = RED]
  ELSE IF x = 0 \/ x = width - 1 THEN [f EXCEPT !.color = WHITE]
  ELSE IF y = 0 \/ y = height THEN [f EXCEPT !.color = WHITE]
  ELSE f

KernDrawAxis(y) ==
  /\ stage = "axis"
  /\ y \in Rows \ done
  /\ depthbuffer' = [p \in Pixels |->
                       IF RowOf(p) = y THEN DrawAxis(depthbuffer[p], ColOf(p), y)
                       ELSE depthbuffer[p]]
  /\ done' = done \cup {y}
  /\ UNCHANGED <<mesh, run, renderMode, backFaceCulling, antiAliasing, stage, thr, redraw,
                 numTriangles, outVertex, primitives, edges, framebuffer, pbo, imageColor,
                 outOfRange, frames, drawn>>

\* ------------------------------------------------------------- geometry kernels

\* kernVertexShader, one thread
VertexShader(v, camera) ==
  LET outPoint == <<v.pos[1], v.pos[2], v.pos[3], R(1)>>
      p == MulMV4(camera.cameraMatrix, outPoint)
      q == IF p[4] # R(0) THEN [r \in 1 .. 4 |-> RDiv(p[r], p[4])] ELSE p
  IN  [transformedPos |-> multiplyMV(camera.model, outPoint),
       pos |-> <<RMul(q[1], R(width)), RMul(q[2], R(height)), q[3]>>,
       nor |-> multiplyMV(camera.inverseTransposeModel, <<v.nor[1], v.nor[2], v.nor[3], R(0)>>)]

KernVertexShader(index) ==
  /\ stage = "vs"
  /\ index \in (0 .. vertCount - 1) \ done
  /\ outVertex' = [outVertex EXCEPT ![index] = VertexShader(bufVertex[index], cam)]
  /\ done' = done \cup {index}
  /\ UNCHANGED <<mesh, run, renderMode, backFaceCulling, antiAliasing, stage, thr, redraw,
                 numTriangles, primitives, edges, depthbuffer, framebuffer, pbo, imageColor,
                 outOfRange, frames, drawn>>

\* the face-normal proxy of triangle index: the sum of three shaded normals
TriNor(index, ov) == VAdd(VAdd(ov[3 * index].nor, ov[3 * index + 1].nor), ov[3 * index + 2].nor)

\* kernPrimitiveAssembly, one thread
PrimitiveAssembly(t, index, ov, iv, indices, camDir, cull) ==
  IF cull /\ RLt(R(0), VDot(TriNor(index, ov), camDir))
  THEN [t EXCEPT !.keep = FALSE]
  ELSE [keep |-> TRUE,
        vOut |-> <<ov[indices[3 * index]], ov[indices[3 * index + 1]], ov[indices[3 * index + 2]]>>,
        vIn |-> <<iv[indices[3 * index]], iv[indices[3 * index + 1]], iv[indices[3 * index + 2]]>>]

KernPrimitiveAssembly(index) ==
  /\ stage = "pa"
  /\ index \in (0 .. numTriangles - 1) \ done
  /\ primitives' = [primitives EXCEPT
                      ![index] = PrimitiveAssembly(primitives[index], index, outVertex, bufVertex,
                                                   bufIdx, cam.dir, backFaceCulling)]
  /\ done' = done \cup {index}
  /\ UNCHANGED <<mesh, run, renderMode, backFaceCulling, antiAliasing, stage, thr, redraw,
                 numTriangles, outVertex, edges, depthbuffer, framebuffer, pbo, imageColor,
                 outOfRange, frames, drawn>>

\* a variant of the predicate that removes the triangles marked to stay
keep_Inverted(t) == t.keep

\* struct keep: the predicate of the removal
keep(t) == ~t.keep

\* the indices in 0 .. n-1 of the triangles that stay, in order
RECURSIVE Kept(_, _)
Kept(prims, n) ==
  IF n = 0 THEN <<>>
  ELSE IF keep(prims[n - 1]) THEN Kept(prims, n - 1)
       ELSE Append(Kept(prims, n - 1), n - 1)

\* thrust::remove_if on [dev_primitives, dev_primitives + n): the triangles
\* that stay move to the front in order, the rest of the range is left as it was
RemoveIf(prims, n) ==
  LET k == Kept(prims, n)
  IN  [i \in DOMAIN prims |-> IF i < Len(k) THEN prims[k[i + 1]] ELSE prims[i]]

\* ------------------------------------------------------------- triangle raster

HalfW == Rat(width, 2)
HalfH == Rat(height, 2)

\* int((i + w*0.5) + (j + h*0.5)*w)
FragIndex(i, j) ==
  RTrunc(RAdd(RAdd(R(i), HalfW), RMul(RAdd(R(j), HalfH), R(width))))

TriDevice(t) == <<t.vOut[1].pos, t.vOut[2].pos, t.vOut[3].pos>>
TriWorld(t) == <<t.vOut[1].transformedPos, t.vOut[2].transformedPos, t.vOut[3].transformedPos>>

\* the bounding box clamped to the viewport less one pixel, as integers
ClampedBox(t) ==
  LET aabb == getAABBForTriangle(TriDevice(t))
      lox == RAdd(RNeg(HalfW), R(1))
      hix == RSub(HalfW, R(1))
      loy == RAdd(RNeg(HalfH), R(1))
      hiy == RSub(HalfH, R(1))
  IN  [minx |-> RTrunc(RClamp(aabb.min[1], lox, hix)),
       miny |-> RTrunc(RClamp(aabb.min[2], loy, hiy)),
       maxx |-> RTrunc(RClamp(aabb.max[1], lox, hix)),
       maxy |-> RTrunc(RClamp(aabb.max[2], loy, hiy))]

\* the sample points per pixel
IterCount(aa) == IF aa THEN NUM_SAMPLES ELSE 1

\* point[k] of pixel (i, j)
SamplePoint(i, j, k, aa) ==
  IF aa
  THEN <<RAdd(R(i), Rat(IF k \in {0, 1} THEN -1 ELSE 1, 4)),
         RAdd(R(j), Rat(IF k \in {0, 2} THEN -1 ELSE 1, 4))>>
  ELSE <<R(i), R(j)>>

\* the <<i, j, k>> of the three nested loops, in the order of the loops
LoopPoints(t, aa) ==
  LET b == ClampedBox(t)
      ni == (b.maxx + 1) - (b.minx - 1) + 1
      nj == (b.maxy + 1) - (b.miny - 1) + 1
      nk == IterCount(aa)
  IN  IF ni <= 0 \/ nj <= 0 THEN <<>>
      ELSE [n \in 1 .. ni * nj * nk |->
              <<(b.minx - 1) + ((n - 1) \div (nj * nk)),
                (b.miny - 1) + (((n - 1) \div nk) % nj),
                (n - 1) % nk>>]

Barycentric(t, s, aa) ==
  calculateBarycentricCoordinate(TriDevice(t), SamplePoint(s[1], s[2], s[3], aa))

\* the loop points that pass isBarycentricCoordInBounds: a thread touches
\* the fragment buffer at these and only at these
Visits(t, aa) ==
  LET Test(s) == isBarycentricCoordInBounds(Barycentric(t, s, aa))
  IN  SelectSeq(LoopPoints(t, aa), Test)

\* int depth = getZAtCoordinate(barycentric, triIn) * 10000
SampleDepth(t, s, aa) ==
  RTrunc(RMul(getZAtCoordinate(Barycentric(t, s, aa), TriWorld(t)), R(DEPTH_SCALE)))

SampleNor(t, s, aa) ==
  Interpolate(Barycentric(t, s, aa), t.vOut[1].nor, t.vOut[2].nor, t.vOut[3].nor)
SamplePos(t, s, aa) ==
  Interpolate(Barycentric(t, s, aa), t.vOut[1].transformedPos, t.vOut[2].transformedPos,
              t.vOut[3].transformedPos)
SampleCol(t, s, aa) ==
  Interpolate(Barycentric(t, s, aa), t.vIn[1].col, t.vIn[2].col, t.vIn[3].col)

\* what a thread computes at a covered sample point from its own triangle
Visit(t, s, aa) ==
  [fragIndex |-> FragIndex(s[1], s[2]), k |-> s[3],
   depth |-> SampleDepth(t, s, aa),
   nor |-> SampleNor(t, s, aa), pos |-> SamplePos(t, s, aa), col |-> SampleCol(t, s, aa)]

\* the covered sample points a thread has before it, in the order of its
\* loops, each with the values the thread computes there
Todo(t, aa) ==
  LET v == Visits(t, aa)
  IN  [n \in 1 .. Len(v) |-> Visit(t, v[n], aa)]

\* the visit thread index is at, and the thread's move to its next visit
Cur(index) == Head(thr[index].todo)
AtEnd(index) == thr[index].todo = <<>>
NextVisit(index) == [thr EXCEPT ![index] = [todo |-> Tail(thr[index].todo), ph |-> "test"]]
Phase(index, ph) == [thr EXCEPT ![index].ph = ph]

RasterFrame == <<mesh, run, renderMode, backFaceCulling, antiAliasing, stage, redraw,
                 numTriangles, outVertex, primitives, edges, framebuffer, pbo, imageColor,
                 frames, drawn>>

\* if(depth < fragments[fragIndex].depth[k])
DepthTest(depth, stored) == depth < stored

\* the depth test of the next covered sample, or the end of the loops
RasterDepthTest(index) ==
  /\ stage = "rastT"
  /\ index \in (0 .. numTriangles - 1) \ done
  /\ thr[index].ph = "test"
  /\ IF AtEnd(index)
     THEN /\ done' = done \cup {index}
          /\ UNCHANGED <<thr, outOfRange>>
     ELSE LET s == Cur(index)
          IN  /\ done' = done
              /\ IF s.fragIndex \notin Pixels
                 THEN /\ outOfRange' = TRUE
                      /\ thr' = NextVisit(index)
                 ELSE /\ outOfRange' = outOfRange
                      /\ thr' = IF DepthTest(s.depth, depthbuffer[s.fragIndex].depth[s.k])
                                THEN Phase(index, "min")
                                ELSE NextVisit(index)
  /\ UNCHANGED depthbuffer
  /\ UNCHANGED RasterFrame

\* a variant of the update that stores the depth without comparing
atomicMin_Store(stored, depth) == depth

\* atomicMin(&fragments[fragIndex].depth[k], depth)
atomicMin(stored, depth) == IMin(stored, depth)

RasterAtomicMin(index) ==
  /\ stage = "rastT"
  /\ index \in (0 .. numTriangles - 1) \ done
  /\ thr[index].ph = "min"
  /\ LET s == Cur(index)
     IN  depthbuffer' = [depthbuffer EXCEPT
                           ![s.fragIndex].depth[s.k] = atomicMin(@, s.depth)]
  /\ thr' = Phase(index, "nor")
  /\ UNCHANGED <<done, outOfRange>>
  /\ UNCHANGED RasterFrame

\* f.primitiveNor[k] = ...
RasterWriteNor(index) ==
  /\ stage = "rastT"
  /\ index \in (0 .. numTriangles - 1) \ done
  /\ thr[index].ph = "nor"
  /\ LET s == Cur(index)
     IN  depthbuffer' = [depthbuffer EXCEPT ![s.fragIndex].primitiveNor[s.k] = s.nor]
  /\ thr' = Phase(index, "pos")
  /\ UNCHANGED <<done, outOfRange>>
  /\ UNCHANGED RasterFrame

\* f.primitivePos[k] = ...
RasterWritePos(index) ==
  /\ stage = "rastT"
  /\ index \in (0 .. numTriangles - 1) \ done
  /\ thr[index].ph = "pos"
  /\ LET s == Cur(index)
     IN  depthbuffer' = [depthbuffer EXCEPT ![s.fragIndex].primitivePos[s.k] = s.pos]
  /\ thr' = Phase(index, "col")
  /\ UNCHANGED <<done, outOfRange>>
  /\ UNCHANGED RasterFrame

\* f.primitiveCol[k] = ..., and on to the next sample
RasterWriteCol(index) ==
  /\ stage = "rastT"
  /\ index \in (0 .. numTriangles - 1) \ done
  /\ thr[index].ph = "col"
  /\ LET s == Cur(index)
     IN  depthbuffer' = [depthbuffer EXCEPT ![s.fragIndex].primitiveCol[s.k] = s.col]
  /\ thr' = NextVisit(index)
  /\ UNCHANGED <<done, outOfRange>>
  /\ UNCHANGED RasterFrame

\* ------------------------------------------------------------- fragment shader

Shade(f, k) == calculateFragColor(f.primitiveNor[k], f.primitivePos[k], f.primitiveCol[k],
                                  light1, light2)

\* a variant of the shader that resolves to the colour of sample 0 unlit
FragmentShader_Unlit(f, aa) ==
  IF \E k \in Samples : f.depth[k] < INT_MAX
  THEN [f EXCEPT !.color = f.primitiveCol[0]]
  ELSE f

\* a variant of the shader that resolves to sample 0 whatever the toggle
FragmentShader_Sample0(f, aa) ==
  IF \E k \in Samples : f.depth[k] < INT_MAX
  THEN [f EXCEPT !.color = Shade(f, 0)]
  ELSE f

\* a variant of the shader that shades a pixel whether or not a sample of it
\* was covered
FragmentShader_Always(f, aa) ==
  IF ~aa
  THEN [f EXCEPT !.color = Shade(f, 0)]
  ELSE [f EXCEPT !.color =
          VScale(Rat(1, 4), VAdd(VAdd(Shade(f, 0), Shade(f, 1)),
                                 VAdd(Shade(f, 2), Shade(f, 3))))]

\* kernFragmentShader, one thread
FragmentShader(f, aa) ==
  IF \E k \in Samples : f.depth[k] < INT_MAX
  THEN IF ~aa
       THEN [f EXCEPT !.color = Shade(f, 0)]
       ELSE [f EXCEPT !.color =
               VScale(Rat(1, 4), VAdd(VAdd(Shade(f, 0), Shade(f, 1)),
                                      VAdd(Shade(f, 2), Shade(f, 3))))]
  ELSE f

KernFragmentShader(y) ==
  /\ stage = "fs"
  /\ y \in Rows \ done
  /\ depthbuffer' = [p \in Pixels |->
                       IF RowOf(p) = y THEN FragmentShader(depthbuffer[p], antiAliasing)
                       ELSE depthbuffer[p]]
  /\ done' = done \cup {y}
  /\ UNCHANGED <<mesh, run, renderMode, backFaceCulling, antiAliasing, stage, thr, redraw,
                 numTriangles, outVertex, primitives, edges, framebuffer, pbo, imageColor,
                 outOfRange, frames, drawn>>

\* ------------------------------------------------------------- point raster

\* a variant of the point raster that swaps the two pixel coordinates
RasterizePoint_Transposed(frags, v) ==
  LET px == RTrunc(v.pos[1])
      py == RTrunc(v.pos[2])
  IN  IF /\ RLt(RNeg(HalfW), R(px)) /\ RLt(R(px), HalfW)
         /\ RLt(RNeg(HalfH), R(py)) /\ RLt(R(py), HalfH)
      THEN [frags EXCEPT ![FragIndex(py, px)].color = WHITE]
      ELSE frags

\* kernRasterizePoints, one thread: the fragments after it has run
RasterizePoint(frags, v) ==
  LET px == RTrunc(v.pos[1])
      py == RTrunc(v.pos[2])
  IN  IF /\ RLt(RNeg(HalfW), R(px)) /\ RLt(R(px), HalfW)
         /\ RLt(RNeg(HalfH), R(py)) /\ RLt(R(py), HalfH)
      THEN [frags EXCEPT ![FragIndex(px, py)].color = WHITE]
      ELSE frags

KernRasterizePoints(index) ==
  /\ stage = "rastP"
  /\ index \in (0 .. vertCount - 1) \ done
  /\ depthbuffer' = RasterizePoint(depthbuffer, outVertex[index])
  /\ done' = done \cup {index}
  /\ UNCHANGED <<mesh, run, renderMode, backFaceCulling, antiAliasing, stage, thr, redraw,
                 numTriangles, outVertex, primitives, edges, framebuffer, pbo, imageColor,
                 outOfRange, frames, drawn>>

\* ------------------------------------------------------------- edge assembly

\* the n-th of the six stores of thread index of kernEdgeAssembly:
\* the slot, the endpoint and the value stored
EdgeStore(index, n, ov, indices) ==
  [slot |-> indices[3 * index + (n \div 2)],
   field |-> IF n % 2 = 0 THEN "v1" ELSE "v2",
   value |-> ov[3 * index + (((n \div 2) + (n % 2)) % 3)].pos]

KernEdgeAssembly(index) ==
  /\ stage = "ea"
  /\ index \in (0 .. numTriangles - 1) \ done
  /\ LET st == EdgeStore(index, thr[index].at, outVertex, bufIdx)
     IN  edges' = IF st.field = "v1"
                  THEN [edges EXCEPT ![st.slot].v1 = st.value]
                  ELSE [edges EXCEPT ![st.slot].v2 = st.value]
  /\ IF thr[index].at = 5
     THEN done' = done \cup {index} /\ thr' = thr
     ELSE done' = done /\ thr' = [thr EXCEPT ![index].at = @ + 1]
  /\ UNCHANGED <<mesh, run, renderMode, backFaceCulling, antiAliasing, stage, redraw,
                 numTriangles, outVertex, primitives, depthbuffer, framebuffer, pbo,
                 imageColor, outOfRange, frames, drawn>>

\* ------------------------------------------------------------- line raster

PInf == <<1, 0>>
NInf == <<-1, 0>>

\* float division, the divisor possibly zero
FDiv(a, b) ==
  IF b # R(0) THEN RDiv(a, b)
  ELSE IF RSign(a) > 0 THEN PInf ELSE IF RSign(a) < 0 THEN NInf ELSE NaN

\* a variant of the setup whose loop always counts upwards
LineSetup_StepsUp(e) ==
  LET v1 == <<RClamp(e.v1[1], RNeg(HalfW), HalfW), RClamp(e.v1[2], RNeg(HalfH), HalfH)>>
      v2 == <<RClamp(e.v2[1], RNeg(HalfW), HalfW), RClamp(e.v2[2], RNeg(HalfH), HalfH)>>
      m == FDiv(RSub(v2[2], v1[2]), RSub(v2[1], v1[1]))
      steep == m = PInf \/ (m \notin {PInf, NInf, NaN} /\ RLt(R(1), m))
  IN  [v1 |-> v1, v2 |-> v2, m |-> m, steep |-> steep,
       inc |-> 1,
       from |-> IF steep THEN RTrunc(v1[2]) ELSE RTrunc(v1[1]),
       to |-> IF steep THEN RTrunc(v2[2]) ELSE RTrunc(v2[1])]

\* what a thread of kernRasterizeLines computes before its loop
LineSetup(e) ==
  LET v1 == <<RClamp(e.v1[1], RNeg(HalfW), HalfW), RClamp(e.v1[2], RNeg(HalfH), HalfH)>>
      v2 == <<RClamp(e.v2[1], RNeg(HalfW), HalfW), RClamp(e.v2[2], RNeg(HalfH), HalfH)>>
      m == FDiv(RSub(v2[2], v1[2]), RSub(v2[1], v1[1]))
      steep == m = PInf \/ (m \notin {PInf, NInf, NaN} /\ RLt(R(1), m))
  IN  [v1 |-> v1, v2 |-> v2, m |-> m, steep |-> steep,
       inc |-> IF steep THEN (IF RLt(v2[2], v1[2]) THEN -1 ELSE 1)
               ELSE (IF RLt(v2[1], v1[1]) THEN -1 ELSE 1),
       from |-> IF steep THEN RTrunc(v1[2]) ELSE RTrunc(v1[1]),
       to |-> IF steep THEN RTrunc(v2[2]) ELSE RTrunc(v2[1])]

\* the pixel <<i, j>> of the loop at the value c of its variable
LinePixel(l, c) ==
  IF l.steep
  THEN <<RTrunc(RAdd(IF l.m = PInf THEN R(0) ELSE RDiv(RSub(R(c), l.v1[2]), l.m), l.v1[1])), c>>
  ELSE <<c, RTrunc(RAdd(RMul(l.m, RSub(R(c), l.v1[1])), l.v1[2]))>>

KernRasterizeLines(index) ==
  /\ stage = "rastL"
  /\ index \in (0 .. vertCount - 1) \ done
  /\ LET l == LineSetup(edges[index])
     IN  IF thr[index].ph = "start"
         THEN /\ thr' = [thr EXCEPT ![index] = [at |-> l.from, ph |-> "loop"]]
              /\ UNCHANGED <<done, depthbuffer, outOfRange>>
         ELSE IF thr[index].at = l.to
         THEN /\ done' = done \cup {index}
              /\ UNCHANGED <<thr, depthbuffer, outOfRange>>
         ELSE LET px == LinePixel(l, thr[index].at)
                  fragIndex == FragIndex(px[1], px[2])
              IN  /\ thr' = [thr EXCEPT ![index].at = @ + l.inc]
                  /\ done' = done
                  /\ IF fragIndex \in Pixels
                     THEN /\ depthbuffer' = [depthbuffer EXCEPT ![fragIndex].color = WHITE]
                          /\ outOfRange' = outOfRange
                     ELSE /\ depthbuffer' = depthbuffer
                          /\ outOfRange' = TRUE
  /\ UNCHANGED <<mesh, run, renderMode, backFaceCulling, antiAliasing, stage, redraw,
                 numTriangles, outVertex, primitives, edges, framebuffer, pbo, imageColor,
                 frames, drawn>>

\* ------------------------------------------------------------- host

\* a variant of the entry that takes the redraw branch whatever the flag
FirstStage_Redraw(r) == "clear"

\* the first kernel of a call: the redraw branch or the present stage alone
FirstStage(r) == IF r THEN "clear" ELSE "render"

\* a variant of the entry that leaves scene->run as it finds it
Rasterize_KeepsFlag ==
  /\ stage = "idle"
  /\ frames < MaxFrames
  /\ frames' = frames + 1
  /\ stage' = FirstStage(run)
  /\ redraw' = run
  /\ run' = run
  /\ numTriangles' = IF run THEN vertCount \div 3 ELSE numTriangles
  /\ done' = {}
  /\ UNCHANGED <<mesh, renderMode, backFaceCulling, antiAliasing, thr, outVertex, primitives,
                 edges, depthbuffer, framebuffer, pbo, imageColor, outOfRange, drawn>>

\* void rasterize(uchar4 *pbo): entry, the test of scene->run
Rasterize ==
  /\ stage = "idle"
  /\ frames < MaxFrames
  /\ frames' = frames + 1
  /\ stage' = FirstStage(run)
  /\ redraw' = run
  /\ run' = FALSE
  /\ numTriangles' = IF run THEN vertCount \div 3 ELSE numTriangles
  /\ done' = {}
  /\ UNCHANGED <<mesh, renderMode, backFaceCulling, antiAliasing, thr, outVertex, primitives,
                 edges, depthbuffer, framebuffer, pbo, imageColor, outOfRange, drawn>>

\* the scene's input handling between two calls: a new mode or toggle, and
\* scene->run set
SceneInput ==
  /\ stage = "idle"
  /\ frames < MaxFrames
  /\ \E cfg \in Meshes[mesh].configs :
       /\ renderMode' = cfg.renderMode
       /\ backFaceCulling' = cfg.backFaceCulling
       /\ antiAliasing' = cfg.antiAliasing
  /\ run' = TRUE
  /\ UNCHANGED <<mesh, stage, done, thr, redraw, numTriangles, outVertex, primitives, edges,
                 depthbuffer, framebuffer, pbo, imageColor, outOfRange, frames, drawn>>

\* the index domain of each kernel
WorkItems(st) ==
  CASE st \in {"clear", "axis", "fs", "render", "pbo"} -> Rows
    [] st \in {"vs", "rastP", "rastL"} -> 0 .. vertCount - 1
    [] st \in {"pa", "rastT", "ea"} -> 0 .. numTriangles - 1
    [] OTHER -> {}

\* the order of the launches in rasterize()
NextStage(st) ==
  CASE st = "clear" -> "axis"
    [] st = "axis" -> "vs"
    [] st = "vs" -> (CASE renderMode = "TRIANGLES" -> "pa"
                       [] renderMode = "POINTS" -> "rastP"
                       [] renderMode = "LINES" -> "ea")
    [] st = "pa" -> (IF backFaceCulling THEN "cull" ELSE "rastT")
    [] st = "cull" -> "rastT"
    [] st = "rastT" -> "fs"
    [] st = "fs" -> "render"
    [] st = "rastP" -> "render"
    [] st = "ea" -> "rastL"
    [] st = "rastL" -> "render"
    [] st = "render" -> "pbo"
    [] st = "pbo" -> "copy"
    [] st = "copy" -> "idle"

\* the threads of a kernel at its launch
StartThreads(st, prims, n) ==
  CASE st = "rastT" -> [t \in 0 .. n - 1 |-> [todo |-> Todo(prims[t], antiAliasing), ph |-> "test"]]
    [] st = "ea" -> [t \in 0 .. n - 1 |-> [at |-> 0, ph |-> "write"]]
    [] st = "rastL" -> [t \in 0 .. vertCount - 1 |-> [at |-> 0, ph |-> "start"]]
    [] OTHER -> <<>>

\* a variant of the launch that does not wait for the running kernel
Launch_Early ==
  /\ stage \in {"clear", "axis", "vs", "pa", "rastT", "fs", "rastP", "ea", "rastL",
                "render", "pbo"}
  /\ stage' = NextStage(stage)
  /\ done' = {}
  /\ thr' = StartThreads(NextStage(stage), primitives, numTriangles)
  /\ UNCHANGED <<mesh, run, renderMode, backFaceCulling, antiAliasing, redraw, numTriangles,
                 outVertex, primitives, edges, depthbuffer, framebuffer, pbo, imageColor,
                 outOfRange, frames, drawn>>

\* a kernel has finished and rasterize() launches the next one
Launch ==
  /\ stage \in {"clear", "axis", "vs", "pa", "rastT", "fs", "rastP", "ea", "rastL",
                "render", "pbo"}
  /\ done = WorkItems(stage)
  /\ stage' = NextStage(stage)
  /\ done' = {}
  /\ thr' = StartThreads(NextStage(stage), primitives, numTriangles)
  /\ UNCHANGED <<mesh, run, renderMode, backFaceCulling, antiAliasing, redraw, numTriangles,
                 outVertex, primitives, edges, depthbuffer, framebuffer, pbo, imageColor,
                 outOfRange, frames, drawn>>

\* the back-face culling step of rasterize(): thrust::remove_if and the new count
CullCompact ==
  /\ stage = "cull"
  /\ primitives' = RemoveIf(primitives, numTriangles)
  /\ numTriangles' = Len(Kept(primitives, numTriangles))
  /\ stage' = NextStage(stage)
  /\ done' = {}
  /\ thr' = StartThreads(NextStage(stage), RemoveIf(primitives, numTriangles),
                       Len(Kept(primitives, numTriangles)))
  /\ UNCHANGED <<mesh, run, renderMode, backFaceCulling, antiAliasing, redraw, outVertex,
                 edges, depthbuffer, framebuffer, pbo, imageColor, outOfRange, frames, drawn>>

\* ------------------------------------------------------------- present

\* a variant of render that clamps each channel to [0, 1]
Render_Clamped(f) == [c \in 1 .. 3 |-> RClamp(f.color[c], R(0), R(1))]

\* render, one thread
Render(f) == f.color

KernRender(y) ==
  /\ stage = "render"
  /\ y \in Rows \ done
  /\ framebuffer' = [p \in Pixels |->
                       IF RowOf(p) = y THEN Render(depthbuffer[p]) ELSE framebuffer[p]]
  /\ done' = done \cup {y}
  /\ UNCHANGED <<mesh, run, renderMode, backFaceCulling, antiAliasing, stage, thr, redraw,
                 numTriangles, outVertex, primitives, edges, depthbuffer, pbo, imageColor,
                 outOfRange, frames, drawn>>

\* sendImageToPBO, one thread: <<x, y, z, w>> of the texel
SendImageToPBO(color) ==
  <<RTrunc(RMul(RClamp(color[1], R(0), R(1)), R(255))),
    RTrunc(RMul(RClamp(color[2], R(0), R(1)), R(255))),
    RTrunc(RMul(RClamp(color[3], R(0), R(1)), R(255))),
    0>>

KernSendImageToPBO(y) ==
  /\ stage = "pbo"
  /\ y \in Rows \ done
  /\ pbo' = [p \in Pixels |-> IF RowOf(p) = y THEN SendImageToPBO(framebuffer[p]) ELSE pbo[p]]
  /\ done' = done \cup {y}
  /\ UNCHANGED <<mesh, run, renderMode, backFaceCulling, antiAliasing, stage, thr, redraw,
                 numTriangles, outVertex, primitives, edges, depthbuffer, framebuffer,
                 imageColor, outOfRange, frames, drawn>>

\* cudaMemcpy(scene->imageColor, dev_framebuffer, ...) and the return
CopyToHost ==
  /\ stage = "copy"
  /\ imageColor' = framebuffer
  /\ stage' = NextStage(stage)
  /\ drawn' = IF redraw THEN Cfg(renderMode, backFaceCulling, antiAliasing) ELSE drawn
  /\ UNCHANGED <<mesh, run, renderMode, backFaceCulling, antiAliasing, done, thr, redraw,
                 numTriangles, outVertex, primitives, edges, depthbuffer, framebuffer, pbo,
                 outOfRange, frames>>

\* ------------------------------------------------------------- specification

Next ==
  \/ Rasterize
  \/ SceneInput
  \/ Launch
  \/ \E y \in Rows : KernClearFragmentBuffer(y)
  \/ \E y \in Rows : KernDrawAxis(y)
  \/ \E i \in 0 .. vertCount - 1 : KernVertexShader(i)
  \/ \E i \in 0 .. numTriangles - 1 : KernPrimitiveAssembly(i)
  \/ CullCompact
  \/ \E i \in 0 .. numTriangles - 1 : RasterDepthTest(i)
  \/ \E i \in 0 .. numTriangles - 1 : RasterAtomicMin(i)
  \/ \E i \in 0 .. numTriangles - 1 : RasterWriteNor(i)
  \/ \E i \in 0 .. numTriangles - 1 : RasterWritePos(i)
  \/ \E i \in 0 .. numTriangles - 1 : RasterWriteCol(i)
  \/ \E y \in Rows : KernFragmentShader(y)
  \/ \E i \in 0 .. vertCount - 1 : KernRasterizePoints(i)
  \/ \E i \in 0 .. numTriangles - 1 : KernEdgeAssembly(i)
  \/ \E i \in 0 .. vertCount - 1 : KernRasterizeLines(i)
  \/ \E y \in Rows : KernRender(y)
  \/ \E y \in Rows : KernSendImageToPBO(y)
  \/ CopyToHost

Spec == Init /\ [][Next]_vars

\* ------------------------------------------------------------- coverage

\* the triangles handed to the raster stage
Active == 0 .. numTriangles - 1

\* for each active triangle, the covered sample points its thread works through
Coverage == [t \in Active |-> Todo(primitives[t], antiAliasing)]

\* the visits of active triangles that fall on slot k of fragment p
CoveringVisits(cov, p, k) ==
  UNION {{[tri |-> t, v |-> cov[t][n]] :
            n \in {m \in DOMAIN cov[t] : cov[t][m].fragIndex = p /\ cov[t][m].k = k}} :
         t \in DOMAIN cov}

\* the least element of a non-empty set of integers
Least(S) == CHOOSE d \in S : \A e \in S : d <= e

\* every thread of the triangle raster has finished
RasterCompleted == stage = "rastT" /\ done = Active

\* every thread of the fragment shader has finished
ShadeCompleted == stage = "fs" /\ done = Rows

\* the fragment as the clear leaves it
Cleared ==
  [color |-> ZERO,
   depth |-> [k \in Samples |-> INT_MAX],
   c |-> [k \in Samples |-> ZERO],
   primitiveCol |-> [k \in Samples |-> ZERO],
   primitiveNor |-> [k \in Samples |-> ZERO],
   primitivePos |-> [k \in Samples |-> ZERO]]

\* ------------------------------------------------------------- C1

\* C1: in TRIANGLES mode, once the triangle raster has completed, every sample
\* slot covered by two triangles with different fixed-point depths holds the
\* normal, position and colour interpolated from the nearer triangle, for
\* every interleaving of the triangle threads.
C1_NearerTriangleAttributes ==
  RasterCompleted =>
    LET cov == Coverage
    IN  \A p \in Pixels, k \in Samples :
          LET C == CoveringVisits(cov, p, k)
          IN  \A a, b \in C :
                (/\ Cardinality({x.tri : x \in C}) = 2
                 /\ a.tri # b.tri
                 /\ a.v.depth < b.v.depth)
                => /\ depthbuffer[p].primitiveNor[k] = a.v.nor
                   /\ depthbuffer[p].primitivePos[k] = a.v.pos
                   /\ depthbuffer[p].primitiveCol[k] = a.v.col

\* ------------------------------------------------------------- C2

\* C2: after the triangle raster stage every sample slot's depth is the least
\* fixed-point depth over the active triangles covering the slot, or the
\* sentinel if none covers it, whatever the interleaving; a second run of the
\* stage on the same triangles passes no depth test and lowers no depth.
C2_DepthIsMinimum ==
  RasterCompleted =>
    LET cov == Coverage
    IN  \A p \in Pixels, k \in Samples :
          LET D == {x.v.depth : x \in CoveringVisits(cov, p, k)}
          IN  /\ depthbuffer[p].depth[k] = Least(D \cup {INT_MAX})
              /\ \A d \in D : /\ ~DepthTest(d, depthbuffer[p].depth[k])
                              /\ atomicMin(depthbuffer[p].depth[k], d) = depthbuffer[p].depth[k]

\* the raster has completed on a slot that two triangles cover at different depths
C2_Witness ==
  /\ RasterCompleted
  /\ LET cov == Coverage
     IN  \E p \in Pixels, k \in Samples :
           \E a, b \in CoveringVisits(cov, p, k) :
             /\ a.tri # b.tri
             /\ a.v.depth < b.v.depth
             /\ depthbuffer[p].depth[k] = a.v.depth

\* ------------------------------------------------------------- C3

\* C3: between one clear and the next no step raises the depth of any sample
\* slot of any fragment, and no depth exceeds the sentinel INT_MAX.
C3_DepthNeverIncreases ==
  /\ [](\A p \in Pixels, k \in Samples : depthbuffer[p].depth[k] <= INT_MAX)
  /\ [][stage # "clear" =>
          \A p \in Pixels, k \in Samples :
            depthbuffer'[p].depth[k] <= depthbuffer[p].depth[k]]_vars

\* a thread has passed the depth test and done its atomic minimum on a slot
\* that another thread had lowered further in between
C3_Witness ==
  /\ stage = "rastT"
  /\ \E i \in Active \ done :
       /\ thr[i].ph = "nor"
       /\ depthbuffer[Cur(i).fragIndex].depth[Cur(i).k] < Cur(i).depth

\* ------------------------------------------------------------- C4

\* the sum of the shaded normals of the vertices index triple k refers to
IndexedNormal(k) ==
  VAdd(VAdd(outVertex[bufIdx[3 * k]].nor, outVertex[bufIdx[3 * k + 1]].nor),
       outVertex[bufIdx[3 * k + 2]].nor)

\* index triple k faces away from the camera
BackFacing(k) == RLt(R(0), VDot(IndexedNormal(k), cam.dir))

\* the shaded vertices of index triple k
TripleOut(k) ==
  <<outVertex[bufIdx[3 * k]], outVertex[bufIdx[3 * k + 1]], outVertex[bufIdx[3 * k + 2]]>>

\* C4: with back-face culling enabled, a triangle whose index triple refers to
\* vertices whose shaded normals sum to a vector with a strictly positive dot
\* product with the view direction is marked keep = false by the assembly and
\* is not among the triangles the raster works on.
C4_BackFacingCulled ==
  (redraw /\ backFaceCulling) =>
    /\ stage = "pa" => \A k \in done : BackFacing(k) => ~primitives[k].keep
    /\ stage = "rastT" =>
         \A t \in Active, k \in 0 .. (bufIdxSize \div 3) - 1 :
           BackFacing(k) => primitives[t].vOut # TripleOut(k)

\* ------------------------------------------------------------- C5

\* C5: in TRIANGLES mode without antialiasing, after the fragment shader the
\* colour of every pixel covered by exactly one active triangle is the
\* two-light Lambertian shading of that triangle's barycentrically
\* interpolated normal, position and colour at the pixel.
C5_SingleCoverageColor ==
  (ShadeCompleted /\ ~antiAliasing) =>
    LET cov == Coverage
    IN  \A p \in Pixels :
          LET C == CoveringVisits(cov, p, 0)
          IN  Cardinality(C) = 1 =>
                LET x == CHOOSE y \in C : TRUE
                IN  depthbuffer[p].color =
                      calculateFragColor(x.v.nor, x.v.pos, x.v.col, light1, light2)

\* the shader has finished on a pixel that exactly one triangle covers
C5_Witness ==
  /\ ShadeCompleted
  /\ ~antiAliasing
  /\ LET cov == Coverage
     IN  \E p \in Pixels :
           /\ Cardinality(CoveringVisits(cov, p, 0)) = 1
           /\ depthbuffer[p].depth[0] < INT_MAX
           /\ depthbuffer[p].color # ZERO

\* ------------------------------------------------------------- C6

\* the loop coordinates <<i, j>> of pixel p
LoopCoord(p) == <<ColOf(p) - (width \div 2), RowOf(p) - (height \div 2)>>

\* triangle t covers the centre of pixel p / sample point k of pixel p
CoversCentre(t, p) ==
  isBarycentricCoordInBounds(
    Barycentric(primitives[t], <<LoopCoord(p)[1], LoopCoord(p)[2], 0>>, FALSE))
CoversSample(t, p, k) ==
  isBarycentricCoordInBounds(
    Barycentric(primitives[t], <<LoopCoord(p)[1], LoopCoord(p)[2], k>>, TRUE))

\* the centre and the four sample points of pixel p lie in triangle t and in
\* no other active triangle
CoveredOnlyBy(t, p) ==
  /\ CoversCentre(t, p)
  /\ \A k \in Samples : CoversSample(t, p, k)
  /\ \A u \in Active \ {t} :
       ~CoversCentre(u, p) /\ \A k \in Samples : ~CoversSample(u, p, k)

\* the Lambertian shading of triangle t at sample point k of pixel p
SampleShade(t, p, k) ==
  LET v == Visit(primitives[t], <<LoopCoord(p)[1], LoopCoord(p)[2], k>>, TRUE)
  IN  calculateFragColor(v.nor, v.pos, v.col, light1, light2)

\* the frame on show was drawn from the same scene without antialiasing and
\* the frame in progress is drawn with it
AfterPlainFrame ==
  /\ ShadeCompleted
  /\ redraw
  /\ antiAliasing
  /\ drawn = Cfg("TRIANGLES", backFaceCulling, FALSE)

PointsCompleted ==
  /\ redraw
  /\ renderMode = "POINTS"
  /\ \/ stage = "rastP" /\ done = 0 .. vertCount - 1
     \/ stage \in {"render", "pbo", "copy"}

\* the truncated device coordinates of a shaded vertex lie strictly inside
\* the viewport bounds
InBounds(v) ==
  /\ -width < 2 * RTrunc(v.pos[1]) /\ 2 * RTrunc(v.pos[1]) < width
  /\ -height < 2 * RTrunc(v.pos[2]) /\ 2 * RTrunc(v.pos[2]) < height

\* the pixels the in-bounds shaded vertices map to
PointPixels ==
  {(RTrunc(outVertex[i].pos[1]) + width \div 2)
     + (RTrunc(outVertex[i].pos[2]) + height \div 2) * width :
   i \in {n \in 0 .. vertCount - 1 : InBounds(outVertex[n])}}

\* the colour of the axes and the border drawn after the clear
AxisColor(p) ==
  IF 2 * ColOf(p) = width THEN GREEN
  ELSE IF 2 * RowOf(p) = height THEN RED
  ELSE IF ColOf(p) \in {0, width - 1} \/ RowOf(p) = 0 THEN WHITE
  ELSE ZERO

\* C7 as stated: after a redrawn frame in POINTS mode the fragment at the
\* pixel of each in-bounds shaded vertex is white and every other fragment is
\* in its cleared state.
C7_OthersCleared ==
  PointsCompleted =>
    \A p \in Pixels :
      IF p \in PointPixels THEN depthbuffer[p].color = WHITE ELSE depthbuffer[p] = Cleared

\* C7 amended: after a redrawn frame in POINTS mode the fragment at the pixel
\* of each in-bounds shaded vertex is white, and every other fragment has its
\* depths at the sentinel, its attributes zero and the colour the axis pass
\* gave it: green on the centre column, red on the centre row, white on the
\* first and last column and the first row, zero elsewhere.
C7_OthersClearedButAxes ==
  PointsCompleted =>
    \A p \in Pixels :
      depthbuffer[p] =
        [Cleared EXCEPT !.color = IF p \in PointPixels THEN WHITE ELSE AxisColor(p)]

\* a point frame with a vertex on a pixel the axis pass left black and with a
\* coloured pixel that no vertex maps to
C7_Witness ==
  /\ PointsCompleted
  /\ \E p \in PointPixels : AxisColor(p) = ZERO /\ depthbuffer[p].color = WHITE
  /\ \E p \in Pixels \ PointPixels : depthbuffer[p].color # ZERO

\* ------------------------------------------------------------- C8

\* x is an integer
IsInt(x) == x[2] = 1

\* a horizontal edge with integer endpoints inside the viewport
HorizontalInside(e) ==
  /\ e.v1[2] = e.v2[2]
  /\ IsInt(e.v1[1]) /\ IsInt(e.v2[1]) /\ IsInt(e.v1[2])
  /\ \A x \in {e.v1[1][1], e.v2[1][1]} : -width <= 2 * x /\ 2 * x < width
  /\ -height <= 2 * e.v1[2][1] /\ 2 * e.v1[2][1] < height

\* the pixels from one endpoint of a horizontal edge to the other, both included
SpanPixels(e) ==
  LET x1 == e.v1[1][1]
      x2 == e.v2[1][1]
  IN  {(x + width \div 2) + (e.v1[2][1] + height \div 2) * width :
       x \in IMin(x1, x2) .. (x1 + x2 - IMin(x1, x2))}

\* the fragment indices the loop of the line raster writes for edge e
LineWrites(e) ==
  LET l == LineSetup(e)
      cs == IF l.inc = 1 THEN l.from .. l.to - 1 ELSE l.to + 1 .. l.from
  IN  {FragIndex(LinePixel(l, c)[1], LinePixel(l, c)[2]) : c \in cs}

\* C8: for a horizontal edge with integer device endpoints (x1, y), (x2, y)
\* inside the viewport the line raster writes exactly the |x2 - x1| + 1
\* fragments of the pixels from x1 to x2, both endpoints included, and sets
\* them to white.
C8_HorizontalEdgePixels ==
  stage = "rastL" =>
    \A i \in 0 .. vertCount - 1 :
      HorizontalInside(edges[i]) =>
        /\ LineWrites(edges[i]) = SpanPixels(edges[i])
        /\ done = 0 .. vertCount - 1 =>
             \A p \in SpanPixels(edges[i]) : depthbuffer[p].color = WHITE

\* ------------------------------------------------------------- C9

\* C9: the clear is total and idempotent: applied to any fragment it gives
\* colour zero, four depths at the sentinel and zero attributes, applied
\* again it gives the same, and when the clear stage has finished the whole
\* fragment buffer is in that state.
C9_ClearTotalIdempotent ==
  /\ \A p \in Pixels :
       /\ ClearFragment(depthbuffer[p]) = Cleared
       /\ ClearFragment(ClearFragment(depthbuffer[p])) = ClearFragment(depthbuffer[p])
  /\ (stage = "clear" /\ done = Rows) => \A p \in Pixels : depthbuffer[p] = Cleared

\* the clear of a second frame has finished on a buffer the first frame drew in
C9_Witness ==
  /\ stage = "clear"
  /\ done = Rows
  /\ drawn.renderMode # "NONE"
  /\ \E p \in Pixels : imageColor[p] # ZERO
  /\ \A p \in Pixels : depthbuffer[p] = Cleared

\* ------------------------------------------------------------- C10

\* C10: a call of rasterize that finds the needs-redraw flag unset runs only
\* the present stages, leaves the fragment buffer, the shaded vertices, the
\* triangles and the edges as they were, and returns with the framebuffer and
\* the host colour buffer equal to the colours of that fragment buffer.
C10_NoRedrawOnlyPresents ==
  /\ []((stage # "idle" /\ ~redraw) => stage \in {"render", "pbo", "copy"})
  /\ [][/\ ((stage # "idle" /\ ~redraw) \/ (stage' # "idle" /\ ~redraw'))
           => UNCHANGED <<depthbuffer, outVertex, primitives, edges>>
        /\ (stage = "copy" /\ stage' = "idle" /\ ~redraw)
           => /\ framebuffer' = [p \in Pixels |-> depthbuffer[p].color]
              /\ imageColor' = framebuffer']_vars

\* a call without redraw has returned after a frame that was drawn
C10_Witness ==
  /\ stage = "idle"
  /\ frames > 1
  /\ ~redraw
  /\ drawn.renderMode # "NONE"
  /\ imageColor = [p \in Pixels |-> depthbuffer[p].color]
  /\ \E p \in Pixels : imageColor[p] # ZERO

\* ------------------------------------------------------------- C11

\* the output of each finished stage of a redrawn frame is complete when the
\* next stage runs
StageInputsComplete ==
  redraw =>
    /\ stage = "axis" =>
         \A p \in Pixels : [depthbuffer[p] EXCEPT !.color = ZERO] = Cleared
    /\ stage = "vs" =>
         \A p \in Pixels : depthbuffer[p] = [Cleared EXCEPT !.color = AxisColor(p)]
    /\ stage \in {"pa", "cull", "rastT", "fs", "rastP", "ea", "rastL"} =>
         \A i \in 0 .. vertCount - 1 : outVertex[i] = VertexShader(bufVertex[i], cam)
    /\ (stage = "cull" \/ (stage = "rastT" /\ ~backFaceCulling)) =>
         \A k \in 0 .. (vertCount \div 3) - 1 :
           primitives[k] = PrimitiveAssembly(primitives[k], k, outVertex, bufVertex, bufIdx,
                                             cam.dir, backFaceCulling)
    /\ (stage = "rastT" /\ backFaceCulling) =>
         /\ \A t \in Active : primitives[t].keep
         /\ RemoveIf(primitives, numTriangles) = primitives
    /\ (stage = "rastL" /\ \A a, b \in DOMAIN bufIdx : bufIdx[a] = bufIdx[b] => a = b) =>
         \A k \in Active, n \in 0 .. 2 :
           edges[bufIdx[3 * k + n]] =
             [v1 |-> outVertex[3 * k + n].pos, v2 |-> outVertex[3 * k + ((n + 1) % 3)].pos]
    /\ (stage = "render" /\ renderMode = "TRIANGLES") =>
         \A p \in Pixels : FragmentShader(depthbuffer[p], antiAliasing) = depthbuffer[p]

\* C11: within a frame no work item of a stage starts before every work item
\* of the stage before it has finished: each stage finds the whole output of
\* the stages before it, the triangle array and count are the compacted ones
\* and stay fixed while the raster threads run, and the host moves from the
\* raster to the fragment shader only when every raster thread has ended.
C11_StagesInOrder ==
  /\ []StageInputsComplete
  /\ [][/\ (stage' # stage /\ stage \notin {"idle", "cull", "copy"})
           => done = WorkItems(stage)
        /\ (stage = "rastT" /\ stage' = "fs") => \A t \in Active : AtEnd(t)
        /\ (stage = "rastT" /\ stage' = "rastT")
           => UNCHANGED <<primitives, numTriangles>>]_vars

\* raster threads are running on a triangle array that compaction has reduced
C11_Witness ==
  /\ stage = "rastT"
  /\ backFaceCulling
  /\ 0 < numTriangles /\ numTriangles < vertCount \div 3
  /\ done # {}
  /\ \E t \in Active \ done : thr[t].ph = "col"

\* ------------------------------------------------------------- C12

\* the fragment shader of a redrawn TRIANGLES frame has finished
TrianglesCompleted ==
  /\ redraw
  /\ renderMode = "TRIANGLES"
  /\ ShadeCompleted \/ stage \in {"render", "pbo", "copy"}

\* no sample slot of fragment p was covered
Uncovered(p) == \A k \in Samples : depthbuffer[p].depth[k] = INT_MAX

\* C12 as stated: after a redrawn TRIANGLES frame every pixel whose depths
\* are all at the sentinel has resolved colour zero, and zero in the
\* framebuffer.
C12_UncoveredBlack ==
  TrianglesCompleted =>
    \A p \in Pixels :
      Uncovered(p) =>
        /\ depthbuffer[p].color = ZERO
        /\ stage \in {"pbo", "copy"} => framebuffer[p] = ZERO

\* C12 amended: after a redrawn TRIANGLES frame every pixel whose depths are
\* all at the sentinel has the colour the axis pass gave it, in the fragment
\* and in the framebuffer: zero off the axes and the border, green on the
\* centre column, red on the centre row, white on the first and last column
\* and the first row.
C12_UncoveredAxisColor ==
  TrianglesCompleted =>
    \A p \in Pixels :
      Uncovered(p) =>
        /\ depthbuffer[p].color = AxisColor(p)
        /\ stage \in {"pbo", "copy"} => framebuffer[p] = AxisColor(p)

\* a presented TRIANGLES frame with a covered pixel, an uncovered black pixel
\* and an uncovered pixel of an axis
C12_Witness ==
  /\ TrianglesCompleted
  /\ stage = "copy"
  /\ \E p \in Pixels : ~Uncovered(p)
  /\ \E p \in Pixels : Uncovered(p) /\ AxisColor(p) = ZERO /\ framebuffer[p] = ZERO
  /\ \E p \in Pixels : Uncovered(p) /\ AxisColor(p) # ZERO /\ framebuffer[p] = AxisColor(p)

\* ------------------------------------------------------------- C13

\* C13: after every call of rasterize, redrawn or not, each framebuffer entry
\* is the resolved colour of its fragment unchanged and the host colour
\* buffer equals the framebuffer entry for entry; the present stages modify
\* no fragment.
C13_PresentCopiesColors ==
  /\ []((stage = "idle" /\ frames > 0) =>
          \A p \in Pixels : /\ framebuffer[p] = depthbuffer[p].color
                            /\ imageColor[p] = framebuffer[p])
  /\ [][(stage \in {"render", "pbo", "copy"}) => (depthbuffer' = depthbuffer)]_vars

\* a redrawn frame has been presented with a colour channel above 1
C13_Witness ==
  /\ stage = "idle"
  /\ frames > 0
  /\ redraw
  /\ \E p \in Pixels : \E c \in 1 .. 3 :
       RLt(R(1), imageColor[p][c]) /\ imageColor[p] = depthbuffer[p].color

\* ------------------------------------------------------------- C14

\* the indices below n of the triangles the assembly marked keep = true
MarkedKept(prims, n) == {i \in 0 .. n - 1 : prims[i].keep}

\* C14: with culling enabled, the compaction leaves in the active range
\* exactly the triangles the assembly marked keep = true, each as often as it
\* was there, numTriangles is their number, and no triangle with keep = false
\* is in the range the raster stage works on.
C14_CompactionKeepsKept ==
  /\ []((stage = "rastT" /\ backFaceCulling) => \A t \in Active : primitives[t].keep)
  /\ [][(stage = "cull") =>
          LET K == MarkedKept(primitives, numTriangles)
              A == 0 .. numTriangles' - 1
          IN  /\ numTriangles' = Cardinality(K)
              /\ \A t \in A : \E j \in K : primitives'[t] = primitives[j]
              /\ \A j \in K :
                   Cardinality({t \in A : primitives'[t] = primitives[j]}) =
                   Cardinality({i \in K : primitives[i] = primitives[j]})]_vars

\* the raster is about to start on an array from which the compaction has
\* removed a triangle and kept others
C14_Witness ==
  /\ stage = "rastT"
  /\ backFaceCulling
  /\ done = {}
  /\ 0 < numTriangles /\ numTriangles < vertCount \div 3
  /\ \A t \in Active : primitives[t].keep /\ thr[t].ph = "test"

\* ------------------------------------------------------------- C15

\* C15: a frame is deterministic: two redrawn frames of the same vertices,
\* indices, camera, lights, mode and toggles end with the same colour buffer
\* whatever the interleaving of their threads.  The two runs are the frame
\* the host colour buffer shows and the frame now ending; each starts from
\* the same inputs and clears the whole fragment buffer first.
C15_FrameDeterministic ==
  (/\ stage = "copy"
   /\ redraw
   /\ drawn = Cfg(renderMode, backFaceCulling, antiAliasing))
  => framebuffer = imageColor

\* ------------------------------------------------------------- C16

\* the coordinates of an input vertex after the camera matrix and the divide
PostDivide(v, camera) ==
  LET p == MulMV4(camera.cameraMatrix, <<v.pos[1], v.pos[2], v.pos[3], R(1)>>)
  IN  IF p[4] # R(0) THEN [r \in 1 .. 4 |-> RDiv(p[r], p[4])] ELSE p

\* x lies in [-a, a]
Within(x, a) == RLe(RNeg(a), x) /\ RLe(x, a)

\* C16: the vertex shader writes the shaded vertex of input vertex i at index
\* i, and a vertex whose x and y after the divide lie in [-1, 1] gets a device
\* position with x in [-w/2, w/2] and y in [-h/2, h/2].
C16_DeviceRange ==
  (redraw /\ stage = "vs") =>
    \A i \in done :
      /\ outVertex[i] = VertexShader(bufVertex[i], cam)
      /\ LET q == PostDivide(bufVertex[i], cam)
         IN  (Within(q[1], R(1)) /\ Within(q[2], R(1)))
             => /\ Within(outVertex[i].pos[1], HalfW)
                /\ Within(outVertex[i].pos[2], HalfH)

\* ------------------------------------------------------------- C17

\* thread index makes its atomic-min in this step and goes on to the stores of
\* the normal, the position and the color
GoesOnToStore(index) ==
  /\ stage = "rastT"
  /\ thr[index].ph = "min"
  /\ thr'[index].ph = "nor"

\* the atomic-min of thread index lowers the depth of its sample slot
LowersDepth(index) ==
  LET s == Cur(index)
  IN  depthbuffer'[s.fragIndex].depth[s.k] < depthbuffer[s.fragIndex].depth[s.k]

\* C17: a thread of the triangle raster goes on to write a slot's normal,
\* position and color only if its own atomic-min lowered the slot's depth; a
\* thread whose depth is not the minimum at its atomic-min writes none of them.
C17_StoreOnlyIfLowered ==
  [][\A index \in DOMAIN thr : GoesOnToStore(index) => LowersDepth(index)]_vars

\* ------------------------------------------------------------- C18

\* pixel (i, j) lies in the clamped bounding box of triangle t
InClampedBox(t, i, j) ==
  LET b == ClampedBox(t)
  IN  b.minx <= i /\ i <= b.maxx /\ b.miny <= j /\ j <= b.maxy

\* column i + w/2 and row j + h/2 are a column and a row of the viewport, and
\* the fragment index of (i, j) is an index of the fragment buffer
InViewport(i, j) ==
  /\ RLe(R(0), RAdd(R(i), HalfW)) /\ RLe(RAdd(R(i), HalfW), R(width - 1))
  /\ RLe(R(0), RAdd(R(j), HalfH)) /\ RLe(RAdd(R(j), HalfH), R(height - 1))
  /\ FragIndex(i, j) \in Pixels

\* C18: the triangle raster tests only pixels (i, j) inside the triangle's
\* clamped bounding box, and every fragment it writes has its column in
\* [0, w-1], its row in [0, h-1] and its index in [0, w*h).
C18_RasterInViewport ==
  RasterCompleted =>
    \A t \in Active :
      LET visits == Visits(primitives[t], antiAliasing)
          loop == LoopPoints(primitives[t], antiAliasing)
      IN  /\ \A n \in DOMAIN visits : InViewport(visits[n][1], visits[n][2])
          /\ \A n \in DOMAIN loop : InClampedBox(primitives[t], loop[n][1], loop[n][2])

\* ------------------------------------------------------------- C19

\* the pixels <<i, j>> the loop of the line raster writes for edge e
LinePixels(e) ==
  LET l == LineSetup(e)
      cs == IF l.inc = 1 THEN l.from .. l.to - 1 ELSE l.to + 1 .. l.from
  IN  {LinePixel(l, c) : c \in cs}

\* C19: for every edge, whatever its endpoints, every fragment the line
\* raster writes has its column in [0, w-1], its row in [0, h-1] and its
\* index in [0, w*h).
C19_LineInViewport ==
  stage = "rastL" =>
    \A index \in 0 .. vertCount - 1 :
      \A px \in LinePixels(edges[index]) : InViewport(px[1], px[2])

\* ------------------------------------------------------------- C20

\* both endpoints of edge e are integer points of the viewport
EndpointsInside(e) ==
  /\ IsInt(e.v1[1]) /\ IsInt(e.v1[2]) /\ IsInt(e.v2[1]) /\ IsInt(e.v2[2])
  /\ \A x \in {e.v1[1][1], e.v2[1][1]} : -width <= 2 * x /\ 2 * x < width
  /\ \A y \in {e.v1[2][1], e.v2[2][1]} : -height <= 2 * y /\ 2 * y < height

IAbs(n) == IF n < 0 THEN -n ELSE n

\* the slope of edge e, with integer endpoints, has magnitude greater than 1
SlopeAboveOne(e) == IAbs(e.v2[2][1] - e.v1[2][1]) > IAbs(e.v2[1][1] - e.v1[1][1])

\* the rows from the first endpoint of e towards the second, the row of the
\* second endpoint left out
RowsSpanned(e) ==
  LET y1 == e.v1[2][1]
      y2 == e.v2[2][1]
  IN  IF y1 <= y2 THEN y1 .. y2 - 1 ELSE y2 + 1 .. y1

\* C20: the line raster steps along the y axis for every edge whose slope has
\* magnitude greater than 1, positive or negative, and along the x axis
\* otherwise; an edge with |slope| > 1 gets one fragment in each row it spans
\* from its first endpoint up to its second.
C20_SteepStepsAlongY ==
  stage = "rastL" =>
    \A index \in 0 .. vertCount - 1 :
      LET e == edges[index]
      IN  EndpointsInside(e) =>
            /\ LineSetup(e).steep <=> SlopeAboveOne(e)
            /\ SlopeAboveOne(e) =>
                 \A r \in RowsSpanned(e) :
                   Cardinality({px \in LinePixels(e) : px[2] = r}) = 1

\* ------------------------------------------------------------- C21

\* the index triples of the index buffer
IndexTriples == 0 .. (bufIdxSize \div 3) - 1

\* every thread of the primitive assembly has finished
AssemblyCompleted == redraw /\ stage = "pa" /\ done = WorkItems("pa")

\* C21: primitive assembly builds one triangle for every index triple: the
\* number of triangles assembled is the index-buffer length divided by 3,
\* also when triangles share vertices, and the vertices of a kept triangle k
\* are those at indices[3k], indices[3k+1], indices[3k+2].
C21_TrianglePerIndexTriple ==
  AssemblyCompleted =>
    /\ numTriangles = bufIdxSize \div 3
    /\ done = IndexTriples
    /\ \A k \in IndexTriples :
         /\ k \in DOMAIN primitives
         /\ primitives[k].keep =>
              \A s \in 0 .. 2 :
                /\ primitives[k].vOut[s + 1] = outVertex[bufIdx[3 * k + s]]
                /\ primitives[k].vIn[s + 1] = bufVertex[bufIdx[3 * k + s]]

\* ------------------------------------------------------------- C22

\* no vertex index occurs twice in the index buffer
IndicesDistinct == \A a, b \in DOMAIN bufIdx : bufIdx[a] = bufIdx[b] => a = b

\* the two endpoints of side s of triangle k: the device positions of the
\* shaded vertices the index buffer names
Side(k, s) ==
  {outVertex[bufIdx[3 * k + s]].pos, outVertex[bufIdx[3 * k + ((s + 1) % 3)]].pos}

\* C22: for each triangle k and each side s the edge assembly writes an edge
\* whose endpoints are the device positions of the shaded vertices
\* indices[3k+s] and indices[3k+(s+1) mod 3]; when no index occurs twice the
\* edge buffer after the stage contains every side of every triangle.
C22_EdgesAreSides ==
  (redraw /\ stage = "rastL" /\ IndicesDistinct) =>
    \A k \in Active, s \in 0 .. 2 :
      \E i \in DOMAIN edges : {edges[i].v1, edges[i].v2} = Side(k, s)

\* ------------------------------------------------------------- C23

\* the endpoint pair thread k of the edge assembly stores for its side s
ThreadPair(k, s) ==
  [v1 |-> EdgeStore(k, 2 * s, outVertex, bufIdx).value,
   v2 |-> EdgeStore(k, 2 * s + 1, outVertex, bufIdx).value]

\* the edge slots the threads of the edge assembly store to
WrittenSlots == {EdgeStore(k, 2 * s, outVertex, bufIdx).slot : k \in Active, s \in 0 .. 2}

\* C23: after the edge assembly every written edge slot holds a pair
\* (v1, v2) that one single thread stored: no interleaving of threads that
\* share a vertex index leaves v1 of one triangle with v2 of another.
C23_EdgePairsWhole ==
  (redraw /\ stage = "rastL") =>
    \A i \in WrittenSlots :
      \E k \in Active, s \in 0 .. 2 :
        /\ EdgeStore(k, 2 * s, outVertex, bufIdx).slot = i
        /\ edges[i] = ThreadPair(k, s)

\* ------------------------------------------------------------- C24

\* the stages in which a raster kernel writes fragments
RasterStages == {"rastT", "rastP", "rastL"}

\* the stages of a frame from its raster on
FromRasterOn == RasterStages \cup {"fs", "render", "pbo", "copy"}

\* C24: in every redrawn frame, in every render mode, the clear runs exactly
\* once and has finished before the first write of a raster kernel, and no
\* clear happens from the start of the raster to the end of the frame.
C24_ClearOncePerFrame ==
  /\ []((stage = "clear") => redraw)
  /\ [][/\ (stage = "idle" /\ stage' # "idle" /\ redraw') => (stage' = "clear")
        /\ (stage' = "clear" /\ stage # "clear") => (stage = "idle" /\ frames' = frames + 1)
        /\ (stage = "clear" /\ stage' = "clear") =>
             (frames' = frames /\ \E y \in Rows \ done : done' = done \cup {y})
        /\ (stage = "clear" /\ stage' # "clear") =>
             (done = Rows /\ \A p \in Pixels : depthbuffer[p] = Cleared)
        /\ (stage' \in RasterStages /\ stage \notin RasterStages) =>
             (\A p \in Pixels : depthbuffer'[p] = [Cleared EXCEPT !.color = AxisColor(p)])
        /\ (stage \in FromRasterOn) => (stage' \in FromRasterOn \cup {"idle"})]_vars

\* the line raster of a second redrawn frame is writing, after a first frame
\* that left its pixels in the buffer
C24_Witness ==
  /\ stage = "rastL"
  /\ redraw
  /\ frames = 2
  /\ drawn.renderMode # "NONE"
  /\ done # {}
  /\ \E p \in Pixels : depthbuffer[p].color = WHITE /\ AxisColor(p) # WHITE

\* ------------------------------------------------------------- C25

\* sample slot k of fragment f was covered by a primitive
Covered(f, k) == f.depth[k] < INT_MAX

\* what slot k adds to the colour of f: its shaded value, or zero for a slot
\* that was never covered
Contribution(f, k) == IF Covered(f, k) THEN Shade(f, k) ELSE ZERO

\* the colour the claim gives a fragment with a covered slot
Resolved(f, aa) ==
  IF aa
  THEN VScale(Rat(1, 4), VAdd(VAdd(Contribution(f, 0), Contribution(f, 1)),
                              VAdd(Contribution(f, 2), Contribution(f, 3))))
  ELSE Shade(f, 0)

\* the depths and the per-sample attributes of the fragment buffer
SampleData ==
  [p \in Pixels |-> <<depthbuffer[p].depth, depthbuffer[p].primitiveNor,
                      depthbuffer[p].primitivePos, depthbuffer[p].primitiveCol>>]

\* C25: the fragment shader sets the colour of a pixel with a sample slot
\* below the sentinel to the shaded value of sample 0 without antialiasing
\* and to a quarter of the sum of the four samples' shaded values with it, a
\* sample that was never covered adding zero; it changes no depth and no
\* per-sample attribute.
C25_ShadeResolves ==
  /\ []((redraw /\ stage = "fs") =>
          \A p \in Pixels :
            (RowOf(p) \in done /\ \E k \in Samples : Covered(depthbuffer[p], k)) =>
              depthbuffer[p].color = Resolved(depthbuffer[p], antiAliasing))
  /\ [][(stage = "fs" /\ stage' = "fs") =>
          /\ SampleData' = SampleData
          /\ \A p \in Pixels :
               (depthbuffer'[p].color # depthbuffer[p].color) =>
                 (\E k \in Samples : Covered(depthbuffer[p], k))]_vars

\* the shader has finished, with antialiasing, on a pixel of which some
\* samples were covered and some were not
C25_Witness ==
  /\ ShadeCompleted
  /\ redraw
  /\ antiAliasing
  /\ \E p \in Pixels :
       /\ \E k \in Samples : Covered(depthbuffer[p], k)
       /\ \E k \in Samples : ~Covered(depthbuffer[p], k)
       /\ depthbuffer[p].color = Resolved(depthbuffer[p], TRUE)
       /\ depthbuffer[p].color # ZERO
       /\ depthbuffer[p].color # Shade(depthbuffer[p], 0)

\* ------------------------------------------------------------- C26

\* a call of rasterize() begins in this step
CallBegins == stage = "idle" /\ stage' # "idle"

\* the stages that only a redrawn call runs
RedrawStages == {"clear", "axis", "vs", "pa", "cull", "rastT", "fs", "rastP", "ea", "rastL"}

\* C26: a call of rasterize that finds the needs-redraw flag set clears it,
\* so the flag is false during and after every call; the geometry, clear,
\* raster and shade stages run once for each setting of the flag from outside
\* and never twice for one setting: they run only in a call that found the
\* flag set, and after a call the flag is set again only from outside, between
\* two calls.
C26_RedrawOncePerSetting ==
  /\ []((stage # "idle") => ~run)
  /\ []((stage \in RedrawStages) => redraw)
  /\ [][/\ CallBegins => (redraw' = run /\ ~run' /\ frames' = frames + 1)
        /\ (CallBegins /\ ~run) => (stage' \notin RedrawStages)
        /\ (stage' \in RedrawStages /\ stage \notin RedrawStages) => (CallBegins /\ run)
        /\ (stage # "idle" /\ stage' = "idle") => ~run'
        /\ (run' /\ ~run) => (stage = "idle" /\ stage' = "idle" /\ frames' = frames)]_vars

\* a second call, right after a call that redrew, runs the present stages
\* alone with the flag still false
C26_Witness ==
  /\ stage = "render"
  /\ frames = 2
  /\ ~redraw
  /\ ~run
  /\ drawn.renderMode # "NONE"
  /\ \E p \in Pixels : depthbuffer[p].color # ZERO

\* ------------------------------------------------------------- C27

\* the scenes drawn as lines: the wire triangle, the triangle on the viewport's
\* edge, the steep triangle, the vertices beyond the viewport and the triangle
\* that skips a vertex
LineMeshes == {6, 7, 9, 10, 12}

\* the state after rasterizeInit and rasterizeSetBuffers with the render mode
\* set to lines
LineInit == Init /\ mesh \in LineMeshes /\ renderMode = "LINES"

\* the steps of a program that stays in the line mode
LineNext ==
  \/ Rasterize
  \/ SceneInput /\ renderMode' = "LINES"
  \/ Launch
  \/ \E y \in Rows : KernClearFragmentBuffer(y)
  \/ \E y \in Rows : KernDrawAxis(y)
  \/ \E i \in 0 .. vertCount - 1 : KernVertexShader(i)
  \/ \E i \in 0 .. numTriangles - 1 : KernEdgeAssembly(i)
  \/ \E i \in 0 .. vertCount - 1 : KernRasterizeLines(i)
  \/ \E y \in Rows : KernRender(y)
  \/ \E y \in Rows : KernSendImageToPBO(y)
  \/ CopyToHost

\* a thread of the line kernel can step, and one does
LineThreadsPending == stage = "rastL" /\ done # WorkItems("rastL")
LineThreadSteps == stage = "rastL" /\ stage' = "rastL"

\* the line kernel has finished and the host can launch render, and does
LineKernelFinished == stage = "rastL" /\ done = WorkItems("rastL")
LineKernelLeft == stage = "rastL" /\ stage' = "render"

\* the line mode with the device running the threads of a launched kernel
\* and the host going on after it: weak fairness of the threads of
\* kernRasterizeLines and of the launch that follows, the conditions under
\* which they are enabled written out
LineSpec ==
  /\ LineInit
  /\ [][LineNext]_vars
  /\ []<>(~LineThreadsPending) \/ []<><<LineThreadSteps>>_vars
  /\ []<>(~LineKernelFinished) \/ []<><<LineKernelLeft>>_vars

\* the steps the loop of the line raster still has to make from position c
StepsLeft(l, c) == IAbs(l.to - c)

\* edge e has both endpoints at one device point
ZeroLength(e) == e.v1[1] = e.v2[1] /\ e.v1[2] = e.v2[2]

\* the integer positions from one clamped endpoint to the other along the
\* axis the loop steps on
AxisPositions(l) ==
  LET a == IF l.steep THEN l.v1[2] ELSE l.v1[1]
      b == IF l.steep THEN l.v2[2] ELSE l.v2[1]
  IN  {c \in -(width + height) .. (width + height) :
         (RLe(a, R(c)) /\ RLe(R(c), b)) \/ (RLe(b, R(c)) /\ RLe(R(c), a))}

\* the loop of each line thread, where it is, lies between its start and its
\* end and steps towards the end
LoopsBounded ==
  stage = "rastL" =>
    \A index \in 0 .. vertCount - 1 :
      LET l == LineSetup(edges[index])
      IN  /\ (l.inc = 1 /\ l.from <= l.to) \/ (l.inc = -1 /\ l.to <= l.from)
          /\ Cardinality(LinePixels(edges[index])) <= StepsLeft(l, l.from)
          /\ StepsLeft(l, l.from) <= Cardinality(AxisPositions(l))
          /\ ZeroLength(edges[index]) => LinePixels(edges[index]) = {}
          /\ (index \in DOMAIN thr /\ thr[index].ph = "loop") =>
               StepsLeft(l, thr[index].at) <= StepsLeft(l, l.from)

\* a step of the loop of a line thread brings it one position nearer its end
LoopAdvances ==
  \A index \in 0 .. vertCount - 1 :
    (stage = "rastL" /\ stage' = "rastL" /\ thr[index].ph = "loop" /\ thr'[index] # thr[index])
    => StepsLeft(LineSetup(edges[index]), thr'[index].at)
         = StepsLeft(LineSetup(edges[index]), thr[index].at) - 1

\* C27: every thread of the line raster terminates: for every edge, with
\* zero length, vertical or out of the viewport, the loop reaches its end
\* coordinate after finitely many steps, at most as many as there are integer
\* positions between the clamped endpoints on the axis it steps along, and
\* visits no pixel for an edge of zero length.
C27_LineLoopsTerminate ==
  /\ []LoopsBounded
  /\ [][LoopAdvances]_vars
  /\ (stage = "rastL") ~> (stage = "render")

\* the line raster has finished with an edge of zero length, a vertical edge
\* and a slanted edge among its edges
C27_Witness ==
  /\ stage = "rastL"
  /\ redraw
  /\ done = 0 .. vertCount - 1
  /\ \E i \in 0 .. vertCount - 1 : ZeroLength(edges[i])
  /\ \E i \in 0 .. vertCount - 1 :
       edges[i].v1[1] = edges[i].v2[1] /\ LinePixels(edges[i]) # {}
  /\ \E i \in 0 .. vertCount - 1 :
       edges[i].v1[1] # edges[i].v2[1] /\ LinePixels(edges[i]) # {}

\* ------------------------------------------------------------- C28

\* each of the three buffers changes only in its producer stage
OneProducerStage ==
  /\ (outVertex' # outVertex) => (stage = "vs")
  /\ (primitives' # primitives) => (stage = "pa")
  /\ (edges' # edges) => (stage = "ea")

\* the shaded vertex and the triangle a work item writes are its own
OwnElementOnly ==
  /\ \A i \in DOMAIN outVertex :
       (outVertex'[i] # outVertex[i]) => (stage = "vs" /\ i \notin done /\ done' = done \cup {i})
  /\ \A k \in DOMAIN primitives :
       (stage = "pa" /\ primitives'[k] # primitives[k]) => (k \notin done /\ done' = done \cup {k})

\* the edge slots thread k of the edge assembly stores to
SlotsOf(k) == {EdgeStore(k, n, outVertex, bufIdx).slot : n \in 0 .. 5}

\* the thread of the edge assembly that steps stores to a slot of no other
\* thread
OwnSlotOnly ==
  (stage = "ea" /\ stage' = "ea") =>
    \A k \in Active :
      (k \notin done /\ (thr'[k] # thr[k] \/ k \in done')) =>
        \A u \in Active \ {k} :
          EdgeStore(k, thr[k].at, outVertex, bufIdx).slot \notin SlotsOf(u)

\* C28: within a frame the shaded-vertex buffer, the triangle buffer and the
\* edge buffer are each written by one stage only and read by the later ones,
\* and no element of them is written by two work items of its producer stage.
C28_SingleWriter ==
  [][OneProducerStage /\ OwnElementOnly /\ OwnSlotOnly]_vars

====
